---- MODULE Spec2Model ----
(***************************************************************************)
(* The CSS selector builder of src/06-objects-tasks.js: class CssBuilder   *)
(* and the facade object cssSelectorBuilder.  Builder instances live in a  *)
(* heap indexed 1..MaxInst; instance i exists once alloc >= i.  Strings    *)
(* are TLA+ strings, joined with \o as the template literals join them.    *)
(***************************************************************************)
EXTENDS Integers, Sequences, FiniteSets, TLC

\* ---------------------------------------------------------------- bounds
\* number of CssBuilder instances the facade may create
MaxInst == 3
\* number of category calls and combine calls when there are several builders
MaxCalls == 3
\* number of category calls when there is one builder: a full selector of
\* six parts and one more call
MaxChain == 7
\* number of category calls and combine calls when one builder is made by a
\* category call and every other one by combine
MaxNested == 4

\* No method tests a value it is given: it only joins it into a string.
\* Every category call passes a name no successful call passed before (a
\* letter for the instance, a digit for the call), so that every part of a
\* rendering tells which call wrote it.
Letters == <<"a", "b", "c", "d", "e", "f", "g", "h">>
Digits == <<"1", "2", "3", "4", "5", "6", "7", "8", "9">>
\* the combinator tokens; the combine that makes instance n passes the n-th
Tokens == <<" ", "+", "~", ">", "+", "~", ">", " ">>
Combinators(n) == IF n \in 1..MaxInst THEN {Tokens[n]} ELSE {}

Insts == 1..MaxInst
Ranks == 1..6

\* ------------------------------------------------------------ CssBuilder
uniqueError == "Element, id and pseudo-element should not occur more then one time inside the selector"

orderError == "Selector parts should be arranged in the following order: element, id, class, attribute, pseudo-class, pseudo-element"

\* the ranks checkType refuses to see twice in a row
UniqueTypes == {1, 2, 6}

\* the fields of a new CssBuilder
Constructor ==
    [el |-> [tag |-> "", id |-> "", class |-> "", attr |-> "",
             pseudoClass |-> "", pseudoElement |-> ""],
     type |-> 0,
     combinedString |-> ""]

\* A method's outcome: the receiver after the call, the string thrown
\* ("" when the call returns) and the string returned ("" for a builder).
Returns(this, res) == [this |-> this, thrown |-> "", res |-> res]
Throws(this, err) == [this |-> this, thrown |-> err, res |-> ""]

\* checkType without its first line
checkType_NoOrder(this, type) ==
    IF type = this.type /\ type \in UniqueTypes THEN Throws(this, uniqueError)
    ELSE Returns([this EXCEPT !.type = type], "")

\* checkType without its last line
checkType_KeepsType(this, type) ==
    IF type < this.type THEN Throws(this, orderError)
    ELSE IF type = this.type /\ type \in UniqueTypes THEN Throws(this, uniqueError)
    ELSE Returns(this, "")

\* checkType without its second line
checkType_NoUnique(this, type) ==
    IF type < this.type THEN Throws(this, orderError)
    ELSE Returns([this EXCEPT !.type = type], "")

\* checkType with [1, 2] for [1, 2, 6]
checkType_TwoUnique(this, type) ==
    IF type < this.type THEN Throws(this, orderError)
    ELSE IF type = this.type /\ type \in {1, 2} THEN Throws(this, uniqueError)
    ELSE Returns([this EXCEPT !.type = type], "")

checkType(this, type) ==
    IF type < this.type THEN Throws(this, orderError)
    ELSE IF type = this.type /\ type \in UniqueTypes THEN Throws(this, uniqueError)
    ELSE Returns([this EXCEPT !.type = type], "")

\* Each category method: this.checkType(n), which may throw; then the write
\* to el; then return this.
\* element writing the tag before it calls checkType
element_WriteFirst(this, value) ==
    checkType([this EXCEPT !.el.tag = value], 1)

element(this, value) ==
    LET chk == checkType(this, 1)
    IN  IF chk.thrown # "" THEN chk
        ELSE Returns([chk.this EXCEPT !.el.tag = value], "")

id(this, value) ==
    LET chk == checkType(this, 2)
    IN  IF chk.thrown # "" THEN chk
        ELSE Returns([chk.this EXCEPT !.el.id = "#" \o value], "")

\* class with = for +=
class_Assign(this, value) ==
    LET chk == checkType(this, 3)
    IN  IF chk.thrown # "" THEN chk
        ELSE Returns([chk.this EXCEPT !.el.class = "." \o value], "")

class(this, value) ==
    LET chk == checkType(this, 3)
    IN  IF chk.thrown # "" THEN chk
        ELSE Returns([chk.this EXCEPT !.el.class = @ \o "." \o value], "")

attr(this, value) ==
    LET chk == checkType(this, 4)
    IN  IF chk.thrown # "" THEN chk
        ELSE Returns([chk.this EXCEPT !.el.attr = @ \o "[" \o value \o "]"], "")

pseudoClass(this, value) ==
    LET chk == checkType(this, 5)
    IN  IF chk.thrown # "" THEN chk
        ELSE Returns([chk.this EXCEPT !.el.pseudoClass = @ \o ":" \o value], "")

pseudoElement(this, value) ==
    LET chk == checkType(this, 6)
    IN  IF chk.thrown # "" THEN chk
        ELSE Returns([chk.this EXCEPT !.el.pseudoElement = @ \o "::" \o value], "")

\* the fields joined in another order: class before id
JoinValues_ClassFirst(el) ==
    el.tag \o el.class \o el.id \o el.attr \o el.pseudoClass \o el.pseudoElement

\* Object.values(this.el).join(''): the fields in their insertion order
JoinValues(el) ==
    el.tag \o el.id \o el.class \o el.attr \o el.pseudoClass \o el.pseudoElement

\* Object.keys(this.el).forEach(key => this.el[key] = '')
ClearKeys(el) == [k \in DOMAIN el |-> ""]

\* stringify without the forEach that empties el
stringify_NoReset(this) ==
    IF this.combinedString # ""
    THEN Returns([this EXCEPT !.combinedString = ""], this.combinedString)
    ELSE Returns(this, JoinValues(this.el))

\* stringify that empties el in its first branch too
stringify_ClearsAll(this) ==
    IF this.combinedString # ""
    THEN Returns([this EXCEPT !.combinedString = "", !.el = ClearKeys(this.el)],
                 this.combinedString)
    ELSE Returns([this EXCEPT !.el = ClearKeys(this.el)], JoinValues(this.el))

\* stringify that refuses an instance with nothing to render
stringify_ThrowsOnEmpty(this) ==
    IF this.combinedString # ""
    THEN Returns([this EXCEPT !.combinedString = ""], this.combinedString)
    ELSE IF JoinValues(this.el) = "" THEN Throws(this, orderError)
    ELSE Returns([this EXCEPT !.el = ClearKeys(this.el)], JoinValues(this.el))

\* stringify that also puts type back to 0
stringify_ResetsType(this) ==
    IF this.combinedString # ""
    THEN Returns([this EXCEPT !.combinedString = ""], this.combinedString)
    ELSE Returns([this EXCEPT !.el = ClearKeys(this.el), !.type = 0], JoinValues(this.el))

stringify(this) ==
    IF this.combinedString # ""
    THEN Returns([this EXCEPT !.combinedString = ""], this.combinedString)
    ELSE Returns([this EXCEPT !.el = ClearKeys(this.el)], JoinValues(this.el))

\* el made once and shared by all instances
Write_SharedEl(h, i, this) ==
    [j \in DOMAIN h |-> IF j = i THEN this ELSE [h[j] EXCEPT !.el = this.el]]

\* each instance owns the fields its constructor made: a method's writes
\* to `this` reach instance i of the heap and no other
Write(h, i, this) == [h EXCEPT ![i] = this]

\* -------------------------------------------------------------- the state
VARIABLES
    heap,     \* heap[i]: the fields of instance i
    alloc,    \* the instances 1..alloc have been constructed
    thrown,   \* the string the last call threw, "" when it returned
    res,      \* the string the last call returned, "" when it returned a builder
    hist,     \* hist[i]: the successful category calls on i since el was empty
    lastCat,  \* lastCat[i]: the rank of the last successful category call on i
    origin,   \* origin[i]: the facade call that made i
    rendered, \* rendered[i]: stringify has run on i
    made,     \* made[i]: successful category calls on i so far
    calls,    \* category calls and combine calls so far
    bound     \* the instances, the builders made by a category call of the
              \* facade, and the calls a run may make

vars == <<heap, alloc, thrown, res, hist, lastCat, origin, rendered, made, calls, bound>>

\* the values the next category call on instance i may pass
Values(i) == IF i \in Insts THEN {Letters[i] \o Digits[made[i] + 1]} ELSE {}

Start ==
    /\ heap = [i \in Insts |-> Constructor]
    /\ alloc = 0
    /\ thrown = ""
    /\ res = ""
    /\ hist = [i \in Insts |-> <<>>]
    /\ lastCat = [i \in Insts |-> 0]
    /\ origin = [i \in Insts |-> "none"]
    /\ rendered = [i \in Insts |-> FALSE]
    /\ made = [i \in Insts |-> 0]
    /\ calls = 0

\* several builders
Init == Start /\ bound = [insts |-> MaxInst, plain |-> MaxInst, calls |-> MaxCalls]

\* one builder
InitChain == Start /\ bound = [insts |-> 1, plain |-> 1, calls |-> MaxChain]

\* one builder made by a category call, the others by combine
InitNested == Start /\ bound = [insts |-> MaxInst, plain |-> 1, calls |-> MaxNested]

Method(rank, this, value) ==
    CASE rank = 1 -> element(this, value)
      [] rank = 2 -> id(this, value)
      [] rank = 3 -> class(this, value)
      [] rank = 4 -> attr(this, value)
      [] rank = 5 -> pseudoClass(this, value)
      [] rank = 6 -> pseudoElement(this, value)

\* one category method called on instance i
Category(rank, i, value) ==
    LET out == Method(rank, heap[i], value)
        ok  == out.thrown = ""
    IN  /\ calls < bound.calls
        /\ heap' = Write(heap, i, out.this)
        /\ thrown' = out.thrown
        /\ res' = out.res
        /\ hist' = IF ok THEN [hist EXCEPT ![i] = Append(@, [rank |-> rank, val |-> value])]
                         ELSE hist
        /\ lastCat' = IF ok THEN [lastCat EXCEPT ![i] = rank] ELSE lastCat
        /\ made' = IF ok THEN [made EXCEPT ![i] = @ + 1] ELSE made
        /\ calls' = calls + 1
        /\ UNCHANGED <<rendered, bound>>

\* builder.element(v) ... builder.pseudoElement(v) on an existing instance
Chain(rank, i, value) ==
    /\ i \in 1..alloc
    /\ Category(rank, i, value)
    /\ UNCHANGED <<alloc, origin>>

\* cssSelectorBuilder.element(v) ... .pseudoElement(v): new CssBuilder().m(v)
Facade(rank, value) ==
    /\ alloc < bound.insts
    /\ Cardinality({i \in 1..alloc : origin[i] = "category"}) < bound.plain
    /\ Category(rank, alloc + 1, value)
    /\ alloc' = alloc + 1
    /\ origin' = [origin EXCEPT ![alloc + 1] = "category"]

Element(i) == \E v \in Values(i) : Chain(1, i, v)
Id(i) == \E v \in Values(i) : Chain(2, i, v)
Class(i) == \E v \in Values(i) : Chain(3, i, v)
Attr(i) == \E v \in Values(i) : Chain(4, i, v)
PseudoClass(i) == \E v \in Values(i) : Chain(5, i, v)
PseudoElement(i) == \E v \in Values(i) : Chain(6, i, v)

FacadeElement == \E v \in Values(alloc + 1) : Facade(1, v)
FacadeId == \E v \in Values(alloc + 1) : Facade(2, v)
FacadeClass == \E v \in Values(alloc + 1) : Facade(3, v)
FacadeAttr == \E v \in Values(alloc + 1) : Facade(4, v)
FacadePseudoClass == \E v \in Values(alloc + 1) : Facade(5, v)
FacadePseudoElement == \E v \in Values(alloc + 1) : Facade(6, v)

\* hist after stringify ran on instance i, whose fields were b: el is
\* emptied unless the combined string was returned
HistAfter(h, i, b) == IF b.combinedString = "" THEN [h EXCEPT ![i] = <<>>] ELSE h

\* builder.stringify() on an existing instance
Stringify(i) ==
    /\ i \in 1..alloc
    /\ LET out == stringify(heap[i])
       IN  /\ heap' = Write(heap, i, out.this)
           /\ thrown' = out.thrown
           /\ res' = out.res
           /\ hist' = HistAfter(hist, i, heap[i])
           /\ rendered' = [rendered EXCEPT ![i] = TRUE]
    /\ UNCHANGED <<alloc, lastCat, origin, made, calls, bound>>

\* combine with the two renderings the other way round
combine_Swapped(this, h, selector1, combinator, selector2) ==
    LET o1 == stringify(h[selector1])
        h1 == Write(h, selector1, o1.this)
        o2 == stringify(h1[selector2])
        h2 == Write(h1, selector2, o2.this)
    IN  IF o1.thrown # "" THEN [heap |-> h1, thrown |-> o1.thrown]
        ELSE IF o2.thrown # "" THEN [heap |-> h2, thrown |-> o2.thrown]
        ELSE [heap |-> Write(h2, this, [h2[this] EXCEPT
                         !.combinedString = o2.res \o " " \o combinator \o " " \o o1.res]),
              thrown |-> ""]

\* combine whose second rendering does not see what the first one did
combine_BothFromStart(this, h, selector1, combinator, selector2) ==
    LET o1 == stringify(h[selector1])
        h1 == Write(h, selector1, o1.this)
        o2 == stringify(h[selector2])
        h2 == Write(h1, selector2, o2.this)
    IN  IF o1.thrown # "" THEN [heap |-> h1, thrown |-> o1.thrown]
        ELSE IF o2.thrown # "" THEN [heap |-> h2, thrown |-> o2.thrown]
        ELSE [heap |-> Write(h2, this, [h2[this] EXCEPT
                         !.combinedString = o1.res \o " " \o combinator \o " " \o o2.res]),
              thrown |-> ""]

\* combine that renders a copy of selector2 and leaves selector2 alone
combine_KeepsRight(this, h, selector1, combinator, selector2) ==
    LET o1 == stringify(h[selector1])
        h1 == Write(h, selector1, o1.this)
        o2 == stringify(h1[selector2])
    IN  IF o1.thrown # "" THEN [heap |-> h1, thrown |-> o1.thrown]
        ELSE IF o2.thrown # "" THEN [heap |-> h1, thrown |-> o2.thrown]
        ELSE [heap |-> Write(h1, this, [h1[this] EXCEPT
                         !.combinedString = o1.res \o " " \o combinator \o " " \o o2.res]),
              thrown |-> ""]

\* `${selector1.stringify()} ${combinator} ${selector2.stringify()}`:
\* selector1 is rendered first, selector2 in the heap that leaves; what a
\* stringify throws leaves combine before the assignment.  The outcome is
\* the heap after the call and the string thrown ("" when combine returns).
combine(this, h, selector1, combinator, selector2) ==
    LET o1 == stringify(h[selector1])
        h1 == Write(h, selector1, o1.this)
        o2 == stringify(h1[selector2])
        h2 == Write(h1, selector2, o2.this)
    IN  IF o1.thrown # "" THEN [heap |-> h1, thrown |-> o1.thrown]
        ELSE IF o2.thrown # "" THEN [heap |-> h2, thrown |-> o2.thrown]
        ELSE [heap |-> Write(h2, this, [h2[this] EXCEPT
                         !.combinedString = o1.res \o " " \o combinator \o " " \o o2.res]),
              thrown |-> ""]

\* cssSelectorBuilder.combine(s1, c, s2): new CssBuilder().combine(s1, c, s2)
FacadeCombine(s1, c, s2) ==
    /\ alloc < bound.insts
    /\ calls < bound.calls
    /\ s1 \in 1..alloc
    /\ s2 \in 1..alloc
    /\ LET n  == alloc + 1
           h1 == Write(heap, s1, stringify(heap[s1]).this)
           out == combine(n, heap, s1, c, s2)
       IN  /\ heap' = out.heap
           /\ alloc' = n
           /\ thrown' = out.thrown
           /\ res' = ""
           /\ hist' = HistAfter(HistAfter(hist, s1, heap[s1]), s2, h1[s2])
           /\ rendered' = [rendered EXCEPT ![s1] = TRUE, ![s2] = TRUE]
           /\ origin' = [origin EXCEPT ![n] = "combine"]
           /\ calls' = calls + 1
    /\ UNCHANGED <<lastCat, made, bound>>

\* one builder: a facade call, then chained calls and stringify
NextChain ==
    \/ \E i \in Insts : Element(i)
    \/ \E i \in Insts : Id(i)
    \/ \E i \in Insts : Class(i)
    \/ \E i \in Insts : Attr(i)
    \/ \E i \in Insts : PseudoClass(i)
    \/ \E i \in Insts : PseudoElement(i)
    \/ FacadeElement
    \/ FacadeId
    \/ FacadeClass
    \/ FacadeAttr
    \/ FacadePseudoClass
    \/ FacadePseudoElement
    \/ \E i \in Insts : Stringify(i)

SpecChain == InitChain /\ [][NextChain]_vars

\* several builders, chained calls, stringify and combine
Next ==
    \/ NextChain
    \/ \E s1 \in Insts, s2 \in Insts : \E c \in Combinators(alloc + 1) : FacadeCombine(s1, c, s2)

Spec == Init /\ [][Next]_vars

\* one builder, combined with itself and with the results of combine
SpecNested == InitNested /\ [][Next]_vars

\* ------------------------------------------------- what the claims speak of
\* the part a category call of rank r and value v contributes to a selector
Part(r, v) ==
    CASE r = 1 -> v
      [] r = 2 -> "#" \o v
      [] r = 3 -> "." \o v
      [] r = 4 -> "[" \o v \o "]"
      [] r = 5 -> ":" \o v
      [] r = 6 -> "::" \o v

RECURSIVE PartsOf(_)
PartsOf(cs) == IF cs = <<>> THEN "" ELSE Part(Head(cs).rank, Head(cs).val) \o PartsOf(Tail(cs))

\* the parts of category r among the calls cs, in the order they were called
OfRank(cs, r) == PartsOf(SelectSeq(cs, LAMBDA c : c.rank = r))

\* the calls cs rendered in the fixed category order
Expected(cs) ==
    OfRank(cs, 1) \o OfRank(cs, 2) \o OfRank(cs, 3) \o OfRank(cs, 4) \o OfRank(cs, 5) \o OfRank(cs, 6)

SingleRanks == {1, 2, 6}
RepeatRanks == {3, 4, 5}

\* ranks non-decreasing, and element, id, pseudoElement at most once
ValidOrder(cs) ==
    /\ \A k \in 1..(Len(cs) - 1) : cs[k].rank <= cs[k + 1].rank
    /\ \A r \in SingleRanks : Cardinality({k \in 1..Len(cs) : cs[k].rank = r}) <= 1

\* instance i was made by a category facade call and has not been rendered:
\* hist[i] is then every successful call made on it
Pristine(i) == origin[i] = "category" /\ ~rendered[i]

\* instance i was made by a category facade call, stringify has run on it and
\* no category call has succeeded on it since
JustRendered(i) == origin[i] = "category" /\ rendered[i] /\ hist[i] = <<>>

\* the field of el a category call of rank r writes
FieldOf(this, r) ==
    CASE r = 1 -> this.el.tag
      [] r = 2 -> this.el.id
      [] r = 3 -> this.el.class
      [] r = 4 -> this.el.attr
      [] r = 5 -> this.el.pseudoClass
      [] r = 6 -> this.el.pseudoElement

\* every value a category call on instance i may ever pass
Names(i) == {Letters[i] \o Digits[k] : k \in 1..Len(Digits)}

\* ------------------------------------------------------------------ claims

\* C1: a sequence of category calls that starts with a facade call, keeps the
\* ranks non-decreasing and calls element, id and pseudoElement at most once
\* never fails, and stringify() then returns the parts in the fixed category
\* order, the parts of one category in the order they were called.
C1_ValidSequenceRenders ==
    [][/\ \A r \in Ranks : \A v \in Values(alloc + 1) : Facade(r, v) => thrown' = ""
       /\ \A i \in Insts : Pristine(i) =>
            /\ \A r \in Ranks : \A v \in Values(i) :
                 (Chain(r, i, v) /\ ValidOrder(Append(hist[i], [rank |-> r, val |-> v])))
                     => thrown' = ""
            /\ Stringify(i) => (ValidOrder(hist[i]) /\ res' = Expected(hist[i]))]_vars

\* element, id, class, attr, pseudoClass, pseudoElement and then stringify
C1_Witness ==
    /\ res = "a1#a2.a3[a4]:a5::a6"
    /\ thrown = ""
    /\ origin[1] = "category"

\* C2: a category call whose rank is lower than the rank of the last
\* successful category call on the same instance throws the order error.
C2_LowerRankThrowsOrder ==
    [][\A i \in Insts : \A r \in Ranks : \A v \in Values(i) :
         (Chain(r, i, v) /\ r < lastCat[i]) => thrown' = orderError]_vars

\* class then id: the last successful call is a class call, made by the
\* facade, and the call after it threw the order error
C2_Witness ==
    /\ thrown = orderError
    /\ lastCat[1] = 3
    /\ hist[1] = <<[rank |-> 3, val |-> "a1"]>>

\* C3: a call of element, id or pseudoElement on an instance whose last
\* successful category call was that same category throws the uniqueness
\* error.
C3_RepeatThrowsUnique ==
    [][\A i \in Insts : \A r \in SingleRanks : \A v \in Values(i) :
         (Chain(r, i, v) /\ r = lastCat[i]) => thrown' = uniqueError]_vars

\* pseudoElement called a second time
C3_Witness ==
    /\ thrown = uniqueError
    /\ lastCat[1] = 6
    /\ heap[1].el.pseudoElement = "::a1"

\* C4: class, attr and pseudoClass called again right after themselves
\* return, and the new part comes after the parts their field holds.
C4_RepeatAppends ==
    [][\A i \in Insts : \A r \in RepeatRanks : \A v \in Values(i) :
         (Chain(r, i, v) /\ r = lastCat[i]) =>
            /\ thrown' = ""
            /\ FieldOf(heap'[i], r) = FieldOf(heap[i], r) \o Part(r, v)]_vars

\* class('a1').class('a2').stringify() returned '.a1.a2'
C4_Witness ==
    /\ res = ".a1.a2"
    /\ lastCat[1] = 3
    /\ made[1] = 2

\* C6: stringify() on an instance that is not combined, called again with no
\* category call in between, returns the empty string.
C6_SecondStringifyEmpty ==
    [][\A i \in Insts : (JustRendered(i) /\ Stringify(i)) => res' = ""]_vars

\* a builder with parts was rendered, and the call after that returned ''
C6_Witness ==
    /\ JustRendered(1)
    /\ made[1] >= 2
    /\ res = ""
    /\ thrown = ""

\* C7: after stringify() the instance takes every call a new builder takes
\* (a new builder takes any category call), and renders the calls made since.
C7_ReusableAfterStringify ==
    [][\A i \in Insts : JustRendered(i) =>
         \A r \in Ranks : \A v \in Values(i) : Chain(r, i, v) => thrown' = ""]_vars

\* C9: a category call that throws leaves the fields of the instance as they
\* were, and with them what stringify() returns.
C9_ThrowLeavesInstance ==
    [][\A i \in Insts : \A r \in Ranks : \A v \in Values(i) :
         (Chain(r, i, v) /\ thrown' # "") =>
            /\ heap'[i] = heap[i]
            /\ stringify(heap'[i]).res = stringify(heap[i]).res]_vars

\* a call threw on a builder that holds parts
C9_Witness ==
    /\ thrown # ""
    /\ Len(hist[1]) >= 2
    /\ ~rendered[1]

\* C5: for two distinct builders combine(A, c, B).stringify() is what
\* A.stringify() would have returned before the combine, a space, c, a space,
\* and what B.stringify() would have returned, whether A and B are plain
\* builders or results of combine.  (Only a step that allocates is compared
\* with FacadeCombine: every FacadeCombine step allocates.)
C5_CombineJoinsRenderings ==
    [][alloc' = alloc + 1 =>
         \A s1 \in Insts, s2 \in Insts : \A c \in Combinators(alloc + 1) :
            (s1 # s2 /\ FacadeCombine(s1, c, s2)) =>
               stringify(heap'[alloc']).res =
                   stringify(heap[s1]).res \o " " \o c \o " " \o stringify(heap[s2]).res]_vars

\* combine(combine(A, '+', A), '~', A).stringify() has returned: the left
\* operand is itself a result of combine, the right one a plain builder that
\* the inner combine had rendered
C5_Witness ==
    /\ origin[2] = "combine"
    /\ origin[3] = "combine"
    /\ res = "a1 +  ~ "
    /\ heap[3].combinedString = ""

\* C8: each facade call makes an instance that did not exist, and a category
\* call or a stringify() on one instance leaves the fields of every other
\* instance as they were.  (The second part is stated by contraposition: a
\* step that changes the fields of an instance other than i is neither a
\* category call, through the facade or chained, nor a stringify() on i.)
C8_InstancesIndependent ==
    [][/\ alloc' # alloc =>
            (alloc' = alloc + 1 /\ heap[alloc'] = Constructor /\ origin[alloc'] = "none")
       /\ \A i \in Insts :
            (\E j \in Insts \ {i} : heap'[j] # heap[j]) =>
               /\ \A r \in Ranks : \A v \in Values(i) : ~Chain(r, i, v)
               /\ ~Stringify(i)
               /\ i = alloc + 1 => \A r \in Ranks : \A v \in Values(i) : ~Facade(r, v)]_vars

\* two builders hold parts: the facade call that made the second left the
\* part of the first in place
C8_Witness ==
    /\ hist[1] = <<[rank |-> 3, val |-> "a1"]>>
    /\ Len(hist[2]) = 1
    /\ heap[1].el.class = ".a1"
    /\ heap[2].el.class = ".b1"
    /\ res = ""

\* C10: the type of an instance is in 0..6 and no call makes it smaller.
C10_TypeNeverDecreases ==
    /\ [](\A i \in Insts : heap[i].type \in 0..6)
    /\ [][\A i \in Insts : heap'[i].type >= heap[i].type]_vars

\* a builder that ended with pseudoElement went through combine and keeps its
\* type
C10_Witness ==
    /\ heap[1].type = 6
    /\ rendered[1]
    /\ origin[2] = "combine"
    /\ heap[1].el.pseudoElement = ""

\* C11: in every reachable state the tag, the id and the pseudoElement of an
\* instance are empty or hold the part of exactly one call; pseudoElement,
\* which is written with +=, never holds the parts of two calls.
C11_SingleFieldsOnePart ==
    \A i \in Insts : \A r \in SingleRanks :
        FieldOf(heap[i], r) \in {""} \cup {Part(r, v) : v \in Names(i)}

\* class, stringify, pseudoElement, and a second pseudoElement that threw:
\* the field holds the part of the first one
C11_Witness ==
    /\ heap[1].el.pseudoElement = "::a2"
    /\ heap[1].el.class = ""
    /\ rendered[1]
    /\ thrown = uniqueError

\* C12: only a category call throws, and it throws at the call whose rank
\* is refused: a step that throws is not a stringify() and not a combine, it
\* is a category call whose rank is lower than the rank of the last
\* successful call on the instance, or repeats it for element, id or
\* pseudoElement.
C12_OnlyCategoryCallsThrow ==
    [][thrown' # "" =>
         /\ \A i \in Insts : ~Stringify(i)
         /\ \A s1 \in Insts, s2 \in Insts : \A c \in Combinators(alloc + 1) :
              ~FacadeCombine(s1, c, s2)
         /\ \E i \in Insts : \E r \in Ranks : \E v \in Values(i) :
              /\ Chain(r, i, v)
              /\ r < lastCat[i] \/ (r = lastCat[i] /\ r \in SingleRanks)]_vars

\* a category call on a builder threw, and the combine that was then given
\* this builder returned
C12_Witness ==
    /\ alloc = 2
    /\ origin[2] = "combine"
    /\ heap[2].combinedString # ""
    /\ made[1] = 1
    /\ calls = 3
    /\ thrown = ""

\* C13: once combine(A, c, B) has returned, A.stringify() and B.stringify()
\* each return the empty string, and the ranks of A and B are as they were.
C13_CombineConsumesOperands ==
    [][alloc' = alloc + 1 =>
         \A s1 \in Insts, s2 \in Insts : \A c \in Combinators(alloc + 1) :
            FacadeCombine(s1, c, s2) =>
               \A s \in {s1, s2} :
                  /\ stringify(heap'[s]).res = ""
                  /\ heap'[s].type = heap[s].type]_vars

\* C13, amended: combine(A, c, B) leaves the ranks of A and B as they were,
\* and afterwards the stringify() of an operand returns the empty string,
\* unless the operand held a combined string at the call and was passed as
\* one operand only: such an operand has lost its combined string alone, and
\* its stringify() returns the parts of the category calls made on it.
C13_CombineRendersOperandsOnce ==
    [][alloc' = alloc + 1 =>
         \A s1 \in Insts, s2 \in Insts : \A c \in Combinators(alloc + 1) :
            FacadeCombine(s1, c, s2) =>
               \A s \in {s1, s2} :
                  /\ heap'[s].type = heap[s].type
                  /\ stringify(heap'[s]).res =
                        IF heap[s].combinedString # "" /\ s1 # s2
                        THEN Expected(hist[s])
                        ELSE ""]_vars

\* combine(X, '~', A) has returned, where X is a result of combine on which
\* element was called: X has lost its combined string and keeps its tag
C13_Witness ==
    /\ origin[2] = "combine"
    /\ origin[3] = "combine"
    /\ heap[3].combinedString = "a1 +  ~ "
    /\ heap[2].combinedString = ""
    /\ heap[2].el.tag = "b1"
    /\ heap[2].type = 1

\* C14: a category call on an instance that holds a combined string leaves
\* that string as it is; stringify() on such an instance returns the combined
\* string, empties it and leaves el and type as they were, so that the next
\* stringify() returns the parts of the category calls made on the instance.
C14_StringifyClearsOnlyCombined ==
    [][\A i \in Insts : heap[i].combinedString # "" =>
         /\ \A r \in Ranks : \A v \in Values(i) :
              Chain(r, i, v) => heap'[i].combinedString = heap[i].combinedString
         /\ Stringify(i) =>
              /\ res' = heap[i].combinedString
              /\ heap'[i].combinedString = ""
              /\ heap'[i].el = heap[i].el
              /\ heap'[i].type = heap[i].type
              /\ stringify(heap'[i]).res = Expected(hist[i])]_vars

\* combine(A, '+', A).element('b1'), then stringify() twice: the second one
\* has returned the tag
C14_Witness ==
    /\ alloc = 2
    /\ origin[2] = "combine"
    /\ res = "b1"
    /\ heap[2].el.tag = ""
    /\ heap[2].type = 1

\* C15: combine(A, c, A).stringify() is what A.stringify() would have
\* returned before the combine, a space, c, a space, and nothing after it.
C15_SameOperandTwice ==
    [][alloc' = alloc + 1 =>
         \A s \in Insts : \A c \in Combinators(alloc + 1) :
            FacadeCombine(s, c, s) =>
               stringify(heap'[alloc']).res = stringify(heap[s]).res \o " " \o c \o " "]_vars

\* C15, amended: combine(A, c, A).stringify() is what A.stringify() would
\* have returned before the combine, a space, c, a space, and then what a
\* second A.stringify() would have returned: nothing, unless A held a
\* combined string, and then the parts of the category calls made on A.
C15_SameOperandRenderedTwice ==
    [][alloc' = alloc + 1 =>
         \A s \in Insts : \A c \in Combinators(alloc + 1) :
            FacadeCombine(s, c, s) =>
               stringify(heap'[alloc']).res =
                   stringify(heap[s]).res \o " " \o c \o " " \o
                      (IF heap[s].combinedString # "" THEN Expected(hist[s]) ELSE "")]_vars

\* X = combine(A, '+', A).element('b1'), and combine(X, '~', X).stringify()
\* has returned: the combined string of X on the left, its tag on the right
C15_Witness ==
    /\ origin[3] = "combine"
    /\ res = "a1 +  ~ b1"
    /\ heap[3].combinedString = ""
    /\ heap[2].el.tag = ""
    /\ heap[2].combinedString = ""

\* C16: once pseudoElement has succeeded on an instance it stays the last
\* successful category call on it, whatever is called on it afterwards,
\* stringify() included, and every category call on the instance throws: a
\* pseudoElement call the uniqueness error, any other one the order error.
C16_NothingAfterPseudoElement ==
    [][\A i \in Insts : lastCat[i] = 6 =>
         /\ lastCat'[i] = 6
         /\ \A r \in Ranks : \A v \in Values(i) :
              Chain(r, i, v) =>
                 thrown' = (IF r = 6 THEN uniqueError ELSE orderError)]_vars

\* pseudoElement succeeded, stringify() emptied the instance, and the
\* category call after that threw the order error
C16_Witness ==
    /\ lastCat[1] = 6
    /\ rendered[1]
    /\ hist[1] = <<>>
    /\ heap[1].el.pseudoElement = ""
    /\ thrown = orderError

====
